---- MODULE Spec2Model ----
(***************************************************************************)
(* Model of main() in magnetoelectric_meas.py: the measurement-and-control *)
(* loop that polls an electrometer (k), a temperature transmitter and a    *)
(* CPX400SP voltage source (cpx), drives a square-wave stimulus, and       *)
(* exports the collected rows.                                             *)
(*                                                                         *)
(* Units.  Voltages, currents of the source and temperatures are integers  *)
(* in 1e-4 of their unit (22.3 V = 223000), so that round(x, 3) is a real  *)
(* operation.  Times are whole seconds.  Frequencies are in 1/20 Hz        *)
(* (0.1 Hz = 2), so that the phase of the sine is a whole number of        *)
(* twentieths of a cycle.                                                  *)
(***************************************************************************)
EXTENDS Integers, Sequences, FiniteSets, TLC

\* ------------------------------------------------------------------ bounds
MaxLoopTime == 1        \* longest run duration with free-running clocks
MaxSteadyLoopTime == 5  \* longest run duration with the 1 s/iteration clocks
MaxTick == 2            \* largest wall-clock advance of one iteration
MaxTStamp == 2          \* largest relative timestamp of a free-running sensor
MaxElapsed == 21        \* largest elapsed time square is evaluated at
MaxFrequency == 4       \* largest frequency square is evaluated at

\* ------------------------------------------------- configuration (l.29-42)
AmplitudeLimit == 230000     \* assert volt_ampl <= 23
volt_freq == 2               \* volt_freq = 0.1
CurrentLimit == 200000       \* cpx.set_current(20)

Amplitudes == {223000, 223456, 230000, 240000, -300000}
AverageWindows == {0, 5}
Currents == {-3, 7}         \* electrometer readings, in nA
Temps == {215004}            \* transmitter readings
CpxCurrents == {12}          \* read-back current of the source
StrayVolts == {50000}        \* read-back of a source that does not echo

NoFile == [columns |-> <<>>, rows |-> <<>>]
NoError == [kind |-> "none", at |-> "none"]

VARIABLES
    pc,                  \* position in main()
    error,               \* the exception that ended the run, if any
    volt_ampl, loop_time, average_window,     \* run parameters
    steady,              \* simulated clocks: both advance 1 s per iteration
    echo,                \* simulated source: read-back = last commanded
    now,                 \* wall clock, time.time()
    relclock,            \* relative clock of the steady electrometer
    start_time,
    opened, released,    \* instrument sessions opened / released
    kLog,                \* configuration calls issued to the electrometer
    cpxLog,              \* commands issued to the voltage source
    reading, tdelta, osensa_temp, cpx_target_voltage, data,
    sample,              \* this iteration's quantities, by origin
    trace,               \* the samples of the appended rows, in order
    df, xlsx,            \* DataFrame and the exported file
    stats                \* reading_period's result <<|sum|, count>>

vars == <<pc, error, volt_ampl, loop_time, average_window, steady, echo, now,
          relclock, start_time, opened, released, kLog, cpxLog, reading,
          tdelta, osensa_temp, cpx_target_voltage, data, sample, trace, df,
          xlsx,
          stats>>

cfgVars == <<volt_ampl, loop_time, average_window, steady, echo>>

\* ------------------------------------------------------------ pure helpers
Abs(x) == IF x < 0 THEN -x ELSE x

\* Python round(x, 3) on a value in 1e-4 units: nearest multiple of 10,
\* ties to even.
Round3(x) ==
    LET r == x % 10
        lo == x - r
    IN  IF r < 5 THEN lo
        ELSE IF r > 5 THEN lo + 10
        ELSE IF (lo \div 10) % 2 = 0 THEN lo ELSE lo + 10

\* list.insert(i, v) with a 0-based index i >= 0: an index past the end
\* appends.
PyInsertAtEnd(s, i, v) == Append(s, v)
PyInsert(s, i, v) ==
    IF i >= Len(s) THEN Append(s, v)
    ELSE SubSeq(s, 1, i) \o <<v>> \o SubSeq(s, i + 1, Len(s))

\* 10000 * sin(2*pi*k/20), k in 0..19
SinQuarter == <<0, 3090, 5878, 8090, 9511, 10000>>
Sin20(k) ==
    IF k <= 5 THEN SinQuarter[k + 1]
    ELSE IF k <= 10 THEN SinQuarter[11 - k]
    ELSE IF k <= 15 THEN -SinQuarter[k - 9]
    ELSE -SinQuarter[21 - k]

\* sine(tdelta, frequency, amplitude, slope, offset), l.111-112
sine(t, frequency, amplitude, slope, offset) ==
    (amplitude * Sin20((t * frequency) % 20)) \div 10000 + slope * t + offset

\* square(tdelta, frequency, amplitude), l.113-119
squareStrict(t, frequency, amplitude) ==
    IF Round3(sine(t, frequency, 10000, 0, 0)) < 0 THEN 0 ELSE amplitude
square(t, frequency, amplitude) ==
    IF Round3(sine(t, frequency, 10000, 0, 0)) <= 0 THEN 0 ELSE amplitude

\* The reply of the source to V1O? / I1O?: the numeral followed by two
\* trailing characters, which the caller cuts off with [:-2] before float().
CpxReply(v) == <<v, "\r", "\n">>
ParseReply(r) == SubSeq(r, 1, Len(r) - 2)[1]

\* The voltage the source was last commanded to.
RECURSIVE LastVoltage(_)
LastVoltage(log) ==
    IF log = <<>> THEN 0
    ELSE IF log[Len(log)][1] = "set_voltage" THEN log[Len(log)][2]
    ELSE LastVoltage(SubSeq(log, 1, Len(log) - 1))

\* The calls of setup_keithley, l.50-103, in order.
setup_keithley(window) ==
    <<"reset", "clear_reg", "status_queue_next",
      "sense_function", "status_queue_next",
      "current_range", "system_zcorrect", "status_queue_next",
      "current_range", "system_zcheck", "status_queue_next",
      "current_nplcycles", "system_pwrlinesync", "status_queue_next",
      "system_tstamp_type", "system_tstamp_relative_reset",
      "system_tstamp_format", "status_queue_next",
      "current_median_state", "current_median_rank", "status_queue_next">>
    \o (IF window # 0
        THEN <<"current_average_state", "current_average_type",
               "current_average_tcontrol", "current_average_count",
               "status_queue_next">>
        ELSE <<>>)
    \o <<"system_tscontrol", "status_queue_next",
         "format_elements", "status_queue_next", "pyvisa_timeout">>

\* pd.DataFrame(data, columns = ...), l.169-174, and df[[...]], l.175-180
FrameColumns ==
    <<"current", "time", "osensa_temp", "cpx_target_voltage", "cpx_volt",
      "cpx_curr">>
ExportColumns ==
    <<"time", "current", "osensa_temp", "cpx_target_voltage", "cpx_volt",
      "cpx_curr">>
DataFrame(rows, columns) == [columns |-> columns, rows |-> rows]
ColumnIndex(columns, name) ==
    CHOOSE j \in 1..Len(columns) : columns[j] = name
SelectColumns(frame, columns) ==
    [columns |-> columns,
     rows |-> [i \in 1..Len(frame.rows) |->
                 [j \in 1..Len(columns) |->
                    frame.rows[i][ColumnIndex(frame.columns, columns[j])]]]]

\* reading_period(df, "time"), l.120-123: <<|sum of differences|, count>>
RECURSIVE SumDeltas(_, _)
SumDeltas(ts, i) ==
    IF i > Len(ts) THEN 0 ELSE (ts[i - 1] - ts[i]) + SumDeltas(ts, i + 1)
reading_period(frame, name) ==
    LET c == ColumnIndex(frame.columns, name)
        ts == [i \in 1..Len(frame.rows) |-> frame.rows[i][c]]
    IN  <<Abs(SumDeltas(ts, 2)), Len(ts) - 1>>

\* -------------------------------------------------------------------- Init
NoSample ==
    [time |-> 0, current |-> 0, osensa_temp |-> 0, cpx_target_voltage |-> 0,
     cpx_volt |-> 0, cpx_curr |-> 0]

Init ==
    /\ pc = "safety"
    /\ error = NoError
    /\ volt_ampl \in Amplitudes
    /\ steady \in BOOLEAN
    /\ loop_time \in (IF steady THEN 1..MaxSteadyLoopTime ELSE 1..MaxLoopTime)
    /\ average_window \in AverageWindows
    /\ echo \in BOOLEAN
    /\ now = 0
    /\ relclock = 0
    /\ start_time = 0
    /\ opened = {}
    /\ released = {}
    /\ kLog = <<>>
    /\ cpxLog = <<>>
    /\ reading = <<>>
    /\ tdelta = 0
    /\ osensa_temp = 0
    /\ cpx_target_voltage = 0
    /\ data = <<>>
    /\ sample = NoSample
    /\ trace = <<>>
    /\ df = NoFile
    /\ xlsx = NoFile
    /\ stats = <<>>

\* An uncaught exception leaves main(): the interpreter exits and every
\* session that was opened is dropped; nothing else runs.
Raise(kind) ==
    /\ pc' = "crashed"
    /\ error' = [kind |-> kind, at |-> pc]
    /\ released' = opened

loopVars == <<reading, tdelta, osensa_temp, cpx_target_voltage, data, sample,
              trace>>
postVars == <<df, xlsx, stats>>
clockVars == <<now, relclock, start_time>>

\* ------------------------------------------------------ startup, l.41-47
\* assert volt_ampl <= 23
AmplitudeAllowedUnchecked(amplitude) == TRUE
AmplitudeAllowed(amplitude) == amplitude <= AmplitudeLimit

SafetyAssert ==
    /\ pc = "safety"
    /\ IF AmplitudeAllowed(volt_ampl)
       THEN /\ pc' = "open_k"
            /\ UNCHANGED <<error, released>>
       ELSE Raise("AssertionError")
    /\ UNCHANGED <<cfgVars, clockVars, opened, kLog, cpxLog, loopVars,
                   postVars>>

OpenOrder == <<"k", "cpx", "transmitter">>
OpenPc == <<"open_k", "open_cpx", "open_transmitter">>

\* k = KEITHLEY6517(...); cpx = CPX400SP(...); transmitter = ..., l.45-47
OpenSession ==
    /\ \E i \in 1..3 :
         /\ pc = OpenPc[i]
         /\ opened' = opened \cup {OpenOrder[i]}
         /\ pc' = IF i < 3 THEN OpenPc[i + 1] ELSE "cpx_output"
    /\ UNCHANGED <<error, cfgVars, clockVars, released, kLog, cpxLog,
                   loopVars, postVars>>

\* -------------------------------------------------------- setup, l.126-134
\* cpx.set_output(1); cpx.set_current(20); cpx.set_voltage(0)
SetupCpx ==
    /\ \/ /\ pc = "cpx_output"
          /\ cpxLog' = Append(cpxLog, <<"set_output", 1>>)
          /\ pc' = "cpx_current"
       \/ /\ pc = "cpx_current"
          /\ cpxLog' = Append(cpxLog, <<"set_current", CurrentLimit>>)
          /\ pc' = "cpx_voltage"
       \/ /\ pc = "cpx_voltage"
          /\ cpxLog' = Append(cpxLog, <<"set_voltage", 0>>)
          /\ pc' = "k_setup"
    /\ UNCHANGED <<error, cfgVars, clockVars, opened, released, kLog,
                   loopVars, postVars>>

\* one call of setup_keithley(...), l.132
SetupKeithley ==
    /\ pc = "k_setup"
    /\ LET calls == setup_keithley(average_window)
           n == Len(kLog) + 1
       IN  /\ kLog' = Append(kLog, calls[n])
           /\ pc' = IF n = Len(calls) THEN "k_tsreset" ELSE "k_setup"
    /\ UNCHANGED <<error, cfgVars, clockVars, opened, released, cpxLog,
                   loopVars, postVars>>

\* k.system_tstamp_relative_reset(), l.133
ResetTimestamp ==
    /\ pc = "k_tsreset"
    /\ kLog' = Append(kLog, "system_tstamp_relative_reset")
    /\ relclock' = 0
    /\ pc' = "start"
    /\ UNCHANGED <<error, cfgVars, now, start_time, opened, released, cpxLog,
                   loopVars, postVars>>

\* start_time = time.time(); data = []; cpx_target_voltage = 0, l.137-141
StartTimer ==
    /\ pc = "start"
    /\ start_time' = now
    /\ data' = <<>>
    /\ cpx_target_voltage' = 0
    /\ pc' = "loop"
    /\ UNCHANGED <<error, cfgVars, now, relclock, opened, released, kLog,
                   cpxLog, reading, tdelta, osensa_temp, sample, trace,
                   postVars>>

\* ------------------------------------------------------- loop, l.143-161
\* while time.time() - start_time <= loop_time
LoopConditionStrict(t, start, limit) == t - start < limit
LoopCondition(t, start, limit) == t - start <= limit

LoopTestShutdownFirst ==
    /\ pc = "loop"
    /\ pc' = IF LoopCondition(now, start_time, loop_time)
             THEN "read_latest" ELSE "shutdown_voltage"
    /\ UNCHANGED <<error, cfgVars, clockVars, opened, released, kLog, cpxLog,
                   loopVars, postVars>>
LoopTest ==
    /\ pc = "loop"
    /\ pc' = IF LoopCondition(now, start_time, loop_time)
             THEN "read_latest" ELSE "export"
    /\ UNCHANGED <<error, cfgVars, clockVars, opened, released, kLog, cpxLog,
                   loopVars, postVars>>

\* reading = k.read_latest(); tdelta = reading[1], l.146-147.  The reply is
\* the pair [current, relative timestamp]; the blocking calls of the
\* iteration let the wall clock advance.
ReadLatest ==
    /\ pc = "read_latest"
    /\ \E cur \in Currents :
       \E ts \in (IF steady THEN {relclock} ELSE 0..MaxTStamp) :
       \E d \in (IF steady THEN {1} ELSE 1..MaxTick) :
         /\ reading' = <<cur, ts>>
         /\ tdelta' = reading'[2]
         /\ now' = now + d
         /\ relclock' = IF steady THEN relclock + 1 ELSE ts
         /\ sample' = [NoSample EXCEPT !.current = cur, !.time = ts]
    /\ pc' = "read_temp"
    /\ UNCHANGED <<error, cfgVars, start_time, opened, released, kLog,
                   cpxLog, osensa_temp, cpx_target_voltage, data, trace,
                   postVars>>

\* osensa_temp = transmitter.read_channel_temp("A"), l.148
ReadTemp ==
    /\ pc = "read_temp"
    /\ \E temp \in Temps :
         /\ osensa_temp' = temp
         /\ sample' = [sample EXCEPT !.osensa_temp = temp]
    /\ pc' = "get_current"
    /\ UNCHANGED <<error, cfgVars, clockVars, opened, released, kLog, cpxLog,
                   reading, tdelta, cpx_target_voltage, data, trace,
                   postVars>>

\* reading.insert(3, float(cpx.get_current()[:-2])), l.149
GetCurrent ==
    /\ pc = "get_current"
    /\ \E c \in CpxCurrents :
         /\ reading' = PyInsert(reading, 3, ParseReply(CpxReply(c)))
         /\ sample' = [sample EXCEPT !.cpx_curr = c]
    /\ pc' = "get_voltage"
    /\ UNCHANGED <<error, cfgVars, clockVars, opened, released, kLog, cpxLog,
                   tdelta, osensa_temp, cpx_target_voltage, data, trace,
                   postVars>>

\* reading.insert(3, float(cpx.get_voltage()[:-2])), l.150
GetVoltage ==
    /\ pc = "get_voltage"
    /\ \E v \in (IF echo THEN {LastVoltage(cpxLog)} ELSE StrayVolts) :
         /\ reading' = PyInsert(reading, 3, ParseReply(CpxReply(v)))
         /\ sample' = [sample EXCEPT !.cpx_volt = v]
    /\ pc' = "append"
    /\ UNCHANGED <<error, cfgVars, clockVars, opened, released, kLog, cpxLog,
                   tdelta, osensa_temp, cpx_target_voltage, data, trace,
                   postVars>>

\* l.151-153: the two remaining inserts, then data.append(reading)
CompleteRowNewTarget(row, target, temp) ==
    PyInsert(PyInsert(row, 3, Round3(square(row[2], volt_freq, volt_ampl))),
             3, Round3(temp))
CompleteRow(row, target, temp) ==
    PyInsert(PyInsert(row, 3, Round3(target)), 3, Round3(temp))

AppendRowOverwrites ==
    /\ pc = "append"
    /\ reading' = CompleteRow(reading, cpx_target_voltage, osensa_temp)
    /\ data' = <<reading'>>
    /\ trace' = <<[sample EXCEPT !.cpx_target_voltage = cpx_target_voltage]>>
    /\ pc' = "compute"
    /\ UNCHANGED <<error, cfgVars, clockVars, opened, released, kLog, cpxLog,
                   tdelta, osensa_temp, cpx_target_voltage, sample, postVars>>
AppendRow ==
    /\ pc = "append"
    /\ reading' = CompleteRow(reading, cpx_target_voltage, osensa_temp)
    /\ data' = Append(data, reading')
    /\ trace' = Append(trace,
                  [sample EXCEPT !.cpx_target_voltage = cpx_target_voltage])
    /\ pc' = "compute"
    /\ UNCHANGED <<error, cfgVars, clockVars, opened, released, kLog, cpxLog,
                   tdelta, osensa_temp, cpx_target_voltage, sample, postVars>>

\* cpx_target_voltage = square(tdelta, volt_freq, volt_ampl), l.157-159
ComputeTargetWallClock ==
    /\ pc = "compute"
    /\ cpx_target_voltage' = square(now - start_time, volt_freq, volt_ampl)
    /\ pc' = "guard"
    /\ UNCHANGED <<error, cfgVars, clockVars, opened, released, kLog, cpxLog,
                   reading, tdelta, osensa_temp, data, sample, trace,
                   postVars>>
ComputeTarget ==
    /\ pc = "compute"
    /\ cpx_target_voltage' = square(tdelta, volt_freq, volt_ampl)
    /\ pc' = "guard"
    /\ UNCHANGED <<error, cfgVars, clockVars, opened, released, kLog, cpxLog,
                   reading, tdelta, osensa_temp, data, sample, trace,
                   postVars>>

\* assert cpx_target_voltage <= volt_ampl, l.160
TargetAllowed(candidate, ceiling) == candidate <= ceiling

GuardAssert ==
    /\ pc = "guard"
    /\ IF TargetAllowed(cpx_target_voltage, volt_ampl)
       THEN /\ pc' = "set_voltage"
            /\ UNCHANGED <<error, released>>
       ELSE Raise("AssertionError")
    /\ UNCHANGED <<cfgVars, clockVars, opened, kLog, cpxLog, loopVars,
                   postVars>>

\* cpx.set_voltage(cpx_target_voltage), l.161
SetVoltage ==
    /\ pc = "set_voltage"
    /\ cpxLog' = Append(cpxLog, <<"set_voltage", cpx_target_voltage>>)
    /\ pc' = "loop"
    /\ UNCHANGED <<error, cfgVars, clockVars, opened, released, kLog,
                   loopVars, postVars>>

\* ------------------------------------------------- after the loop, l.163-195
\* df = pd.DataFrame(data, columns = [...]); df = df[[...]];
\* df.to_excel(...), l.164-183
Export ==
    /\ pc = "export"
    /\ df' = SelectColumns(DataFrame(data, FrameColumns), ExportColumns)
    /\ xlsx' = df'
    /\ pc' = "statistics"
    /\ UNCHANGED <<error, cfgVars, clockVars, opened, released, kLog, cpxLog,
                   loopVars, stats>>

\* reading_period(df, "time") and the prints, l.186-191.  The division by
\* len(timedeltas) raises ZeroDivisionError on a one-row table.
Statistics ==
    /\ pc = "statistics"
    /\ LET r == reading_period(df, "time")
       IN  IF r[2] = 0
           THEN /\ Raise("ZeroDivisionError")
                /\ UNCHANGED stats
           ELSE /\ stats' = r
                /\ pc' = "shutdown_voltage"
                /\ UNCHANGED <<error, released>>
    /\ UNCHANGED <<cfgVars, clockVars, opened, kLog, cpxLog, loopVars, df,
                   xlsx>>

\* cpx.set_voltage(0); cpx.set_output(0), l.193-194
ShutdownCommandsSwapped == <<(<<"set_output", 0>>), (<<"set_voltage", 0>>)>>
ShutdownCommands == <<(<<"set_voltage", 0>>), (<<"set_output", 0>>)>>

Shutdown ==
    /\ \/ /\ pc = "shutdown_voltage"
          /\ cpxLog' = Append(cpxLog, ShutdownCommands[1])
          /\ pc' = "shutdown_output"
       \/ /\ pc = "shutdown_output"
          /\ cpxLog' = Append(cpxLog, ShutdownCommands[2])
          /\ pc' = "release"
    /\ UNCHANGED <<error, cfgVars, clockVars, opened, released, kLog,
                   loopVars, postVars>>

\* del k, l.195, and the return of main(): the remaining sessions go with
\* the process.
Release ==
    /\ \/ /\ pc = "release"
          /\ released' = released \cup {"k"}
          /\ pc' = "return"
       \/ /\ pc = "return"
          /\ released' = opened
          /\ pc' = "done"
    /\ UNCHANGED <<error, cfgVars, clockVars, opened, kLog, cpxLog, loopVars,
                   postVars>>

\* Any call to an instrument or to the file system may raise.
CallSites ==
    {"open_k", "open_cpx", "open_transmitter", "cpx_output", "cpx_current",
     "cpx_voltage", "k_setup", "k_tsreset", "read_latest", "read_temp",
     "get_current", "get_voltage", "set_voltage", "export",
     "shutdown_voltage", "shutdown_output"}

CallFailsRetried ==
    /\ pc \in CallSites
    /\ error' = [kind |-> "InstrumentError", at |-> pc]
    /\ UNCHANGED <<pc, released, cfgVars, clockVars, opened, kLog, cpxLog,
                   loopVars, postVars>>
CallFails ==
    /\ pc \in CallSites
    /\ Raise(IF pc = "export" THEN "OSError" ELSE "InstrumentError")
    /\ UNCHANGED <<cfgVars, clockVars, opened, kLog, cpxLog, loopVars,
                   postVars>>

Next ==
    \/ SafetyAssert
    \/ OpenSession
    \/ SetupCpx
    \/ SetupKeithley
    \/ ResetTimestamp
    \/ StartTimer
    \/ LoopTest
    \/ ReadLatest
    \/ ReadTemp
    \/ GetCurrent
    \/ GetVoltage
    \/ AppendRow
    \/ ComputeTarget
    \/ GuardAssert
    \/ SetVoltage
    \/ Export
    \/ Statistics
    \/ Shutdown
    \/ Release
    \/ CallFails

Spec == Init /\ [][Next]_vars

\* ------------------------------------------------------------- type check
TypeOK ==
    /\ pc \in STRING
    /\ \A i \in 1..Len(data) : Len(data[i]) = 6
    /\ Len(trace) = Len(data)

\* ------------------------------------------------------------ vocabulary
LoopSites ==
    {"read_latest", "read_temp", "get_current", "get_voltage", "set_voltage"}
AfterLoop ==
    {"export", "statistics", "shutdown_voltage", "shutdown_output",
     "release", "return", "done"}
OutputWasEnabled ==
    \E i \in 1..Len(cpxLog) : cpxLog[i] = <<"set_output", 1>>
EndsWithShutdown ==
    /\ Len(cpxLog) >= 2
    /\ cpxLog[Len(cpxLog) - 1] = <<"set_voltage", 0>>
    /\ cpxLog[Len(cpxLog)] = <<"set_output", 0>>
\* the set-voltage command issued at the end of iteration i (the first three
\* commands are those of the setup)
LoopCommand(i) == cpxLog[3 + i]

\* C1: on every exit path of the run once the output has been enabled,
\* the source has been commanded to zero volts and its output disabled
\* before the run ends and before any instrument session is released.
C1_ShutdownOnEveryExit ==
    (OutputWasEnabled /\ (released # {} \/ pc \in {"crashed", "done"}))
        => EndsWithShutdown

\* C2: every set-voltage command issued to the source carries a value whose
\* absolute value is at most the ceiling the configuration was checked
\* against.
C2_CommandsWithinCeiling ==
    \A i \in 1..Len(cpxLog) :
        cpxLog[i][1] = "set_voltage" => Abs(cpxLog[i][2]) <= AmplitudeLimit

\* C3: a configuration with amplitude > 23 is rejected by the assertion at
\* configuration time: no session is opened, no instrument is commanded,
\* the loop is never entered and no record is produced.
C3_OverLimitRejected ==
    volt_ampl > AmplitudeLimit =>
        /\ pc \in {"safety", "crashed"}
        /\ (pc = "crashed" =>
                error = [kind |-> "AssertionError", at |-> "safety"])
        /\ opened = {}
        /\ kLog = <<>>
        /\ cpxLog = <<>>
        /\ data = <<>>
        /\ xlsx = NoFile
C3_Witness ==
    /\ volt_ampl > AmplitudeLimit
    /\ pc = "crashed"

\* C4: when an instrument call fails during a loop iteration, the run still
\* reports the table of the records accumulated so far.
C4_PartialTableReported ==
    (pc = "crashed" /\ error.at \in LoopSites) =>
        /\ xlsx # NoFile
        /\ Len(xlsx.rows) = Len(data)

\* C5: every exported row has six values in the order time, current,
\* osensa_temp, cpx_target_voltage, cpx_volt, cpx_curr, and each column
\* holds the quantity it names for that iteration.
C5_ColumnsHoldNamedQuantities ==
    xlsx # NoFile =>
        /\ xlsx.columns = <<"time", "current", "osensa_temp",
                            "cpx_target_voltage", "cpx_volt", "cpx_curr">>
        /\ Len(xlsx.rows) = Len(trace)
        /\ \A i \in 1..Len(xlsx.rows) :
             xlsx.rows[i] = <<trace[i].time,
                              trace[i].current,
                              Round3(trace[i].osensa_temp),
                              Round3(trace[i].cpx_target_voltage),
                              trace[i].cpx_volt,
                              trace[i].cpx_curr>>

\* C6 (as claimed): in every record the target-voltage value is the square
\* wave computed from that record's own relative timestamp.
C6_TargetOfSameIteration ==
    \A i \in 1..Len(data) :
        data[i][5] = Round3(square(data[i][2], volt_freq, volt_ampl))

\* C6 (amended): the target-voltage value stored in a record is the setpoint
\* in force when the record is taken, rounded to 3 decimals: 0 in the first
\* record, and in record i >= 2 the square wave computed in iteration i-1
\* from the relative timestamp of record i-1.
C6_TargetOfPreviousIteration ==
    \A i \in 1..Len(data) :
        data[i][5] = IF i = 1 THEN 0
                     ELSE Round3(square(data[i - 1][2], volt_freq, volt_ampl))
C6_Witness ==
    /\ Len(data) >= 2
    /\ data[2][5] # 0
    /\ data[2][5] # volt_ampl
    /\ data[2][5] # Round3(square(data[2][2], volt_freq, volt_ampl))

\* C7: with a source that echoes the last commanded voltage, the voltage
\* read-back stored in record i >= 2 is the setpoint commanded at the end of
\* iteration i-1, and the one in the first record is the setup voltage 0.
C7_ReadbackLagsOneIteration ==
    echo =>
        \A i \in 1..Len(data) :
            data[i][6] = IF i = 1 THEN 0 ELSE LoopCommand(i - 1)[2]
C7_Witness ==
    /\ echo
    /\ \E i \in 2..Len(data) :
         /\ data[i][6] # 0
         /\ data[i][6] = LoopCommand(i - 1)[2]
         /\ Len(cpxLog) >= 3 + i
         /\ data[i][6] # LoopCommand(i)[2]

\* C8 (as claimed): with run duration 5 s and clocks advancing 1 s per
\* iteration from 0, the run produces exactly 5 records, stamped 0..4.
C8_FiveRecords ==
    (steady /\ loop_time = 5 /\ pc \in AfterLoop) =>
        /\ Len(data) = 5
        /\ \A i \in 1..Len(data) : data[i][2] = i - 1

\* C8 (amended): with run duration 5 s and clocks advancing 1 s per
\* iteration from 0, the run produces exactly 6 records, stamped 0..5 in
\* that order (the test elapsed <= 5 still passes at elapsed = 5).
C8_SixRecords ==
    (steady /\ loop_time = 5 /\ pc \in AfterLoop) =>
        /\ Len(data) = 6
        /\ \A i \in 1..Len(data) : data[i][2] = i - 1
C8_Witness ==
    /\ steady
    /\ loop_time = 5
    /\ pc = "done"
    /\ Len(xlsx.rows) = 6

\* C9: the guard rejects every candidate with |candidate| > ceiling and
\* accepts every other candidate, which is then the value commanded.
C9_GuardRejectsByMagnitude ==
    /\ pc = "set_voltage" => Abs(cpx_target_voltage) <= volt_ampl
    /\ (pc = "crashed" /\ error.at = "guard") =>
           Abs(cpx_target_voltage) > volt_ampl
    /\ (pc = "loop" /\ Len(cpxLog) > 3) =>
           cpxLog[Len(cpxLog)] = <<"set_voltage", cpx_target_voltage>>

\* C10: on normal completion the last two commands ever sent to the source
\* are set_voltage(0) then set_output(0), and none follows the disabling.
C10_ShutdownIsLast ==
    pc \in {"release", "return", "done"} =>
        /\ error = NoError
        /\ Len(cpxLog) >= 2
        /\ cpxLog[Len(cpxLog) - 1] = <<"set_voltage", 0>>
        /\ cpxLog[Len(cpxLog)] = <<"set_output", 0>>
        /\ \A i \in 1..(Len(cpxLog) - 1) : cpxLog[i] # <<"set_output", 0>>
C10_Witness ==
    /\ pc = "done"
    /\ \E i \in 1..Len(cpxLog) :
         cpxLog[i][1] = "set_voltage" /\ cpxLog[i][2] # 0

\* C11: every loop iteration goes through its steps in the fixed order
\* read_latest, temperature, read-back of the source, append of one record,
\* computation of the target from the timestamp read in the first step,
\* ceiling check, set-voltage command; a step is left only for the next one
\* (or for the end of the run when it raises), and the command carries the
\* target computed from this iteration's timestamp.
C11_FixedStepOrder ==
    [][/\ pc = "loop" => pc' \in {"read_latest", "export"}
       /\ pc' = "read_latest" => pc = "loop"
       /\ pc = "read_latest" =>
            pc' \in {"read_temp", "crashed"} /\ data' = data
       /\ pc = "read_temp" => pc' \in {"get_current", "crashed"}
       /\ pc = "get_current" => pc' \in {"get_voltage", "crashed"}
       /\ pc = "get_voltage" => pc' \in {"append", "crashed"}
       /\ pc = "append" =>
            /\ pc' = "compute"
            /\ Len(data') = Len(data) + 1
            /\ data'[Len(data')][2] = tdelta
            /\ cpxLog' = cpxLog
       /\ pc = "compute" =>
            /\ pc' = "guard"
            /\ cpx_target_voltage' =
                 square(data[Len(data)][2], volt_freq, volt_ampl)
       /\ pc = "guard" =>
            /\ pc' \in {"set_voltage", "crashed"}
            /\ pc' = "set_voltage" => cpx_target_voltage <= volt_ampl
       /\ pc = "set_voltage" =>
            /\ pc' \in {"loop", "crashed"}
            /\ Len(data) = Len(cpxLog) - 2
            /\ pc' = "loop" =>
                 cpxLog' = Append(cpxLog,
                     <<"set_voltage",
                       square(data[Len(data)][2], volt_freq, volt_ampl)>>)
       /\ pc \notin {"set_voltage", "cpx_output", "cpx_current",
                     "cpx_voltage", "shutdown_voltage", "shutdown_output"}
            => cpxLog' = cpxLog
      ]_vars
C11_Witness ==
    /\ pc = "loop"
    /\ Len(data) >= 2
    /\ Len(cpxLog) = 3 + Len(data)
    /\ cpxLog[Len(cpxLog)][2] # 0
    /\ cpxLog[Len(cpxLog)][2] #
         square(now - start_time, volt_freq, volt_ampl)

\* C12: when the wall clock advances in every iteration and every
\* instrument call returns, the run reaches Done: it does not end by an
\* exception other than a failed call (or a failed safety assertion).
\* Stated for the non-negative amplitudes.
C12_RunReachesDone ==
    (pc = "crashed" /\ volt_ampl >= 0) =>
        error.kind \in {"InstrumentError", "OSError", "AssertionError"}

\* C13: the record table is empty at the start and append-only: a step
\* leaves it unchanged or adds exactly one record at its end, in the append
\* step of an iteration; nothing is appended once the loop has ended.
C13_AppendOnly ==
    /\ data = <<>>
    /\ [][/\ \/ data' = data
             \/ /\ pc = "append"
                /\ Len(data') = Len(data) + 1
                /\ SubSeq(data', 1, Len(data)) = data
          /\ (pc \in AfterLoop \/ pc = "crashed") => data' = data
         ]_vars
C13_Witness ==
    /\ pc = "done"
    /\ Len(data) >= 3
    /\ data[1] # data[2]

\* C14: no retry in the loop: once a call of the loop has failed the run is
\* over at that very point, with no further read, record or setpoint, and no
\* step follows.
C14_NoRetryInLoop ==
    /\ [](error.at \in LoopSites =>
            /\ pc = "crashed"
            /\ error.at = "read_latest" => Len(cpxLog) = 3 + Len(data)
            /\ error.at = "read_temp" =>
                 Len(cpxLog) = 3 + Len(data) /\ Len(reading) = 2
            /\ error.at = "get_current" =>
                 Len(cpxLog) = 3 + Len(data) /\ Len(reading) = 2
            /\ error.at = "get_voltage" =>
                 Len(cpxLog) = 3 + Len(data) /\ Len(reading) = 3
            /\ error.at = "set_voltage" =>
                 /\ Len(cpxLog) = 2 + Len(data)
                 /\ reading = data[Len(data)])
    /\ [][error.at \notin LoopSites]_vars
C14_Witness ==
    /\ error.at = "get_voltage"
    /\ Len(data) >= 1
    /\ Len(cpxLog) = 3 + Len(data)

\* C15: a failing configuration call ends the run before the loop: no
\* measurement is read, no record appended, and the configuration calls
\* after the failing one are not issued.
ConfigSites ==
    {"cpx_output", "cpx_current", "cpx_voltage", "k_setup", "k_tsreset"}
IsPrefix(p, q) == Len(p) <= Len(q) /\ SubSeq(q, 1, Len(p)) = p
C15_ConfigFailureAborts ==
    /\ [](error.at \in ConfigSites =>
            /\ pc = "crashed"
            /\ data = <<>> /\ reading = <<>> /\ trace = <<>>
            /\ xlsx = NoFile
            /\ error.at = "cpx_output" => cpxLog = <<>> /\ kLog = <<>>
            /\ error.at = "cpx_current" =>
                 cpxLog = <<(<<"set_output", 1>>)>> /\ kLog = <<>>
            /\ error.at = "cpx_voltage" =>
                 Len(cpxLog) = 2 /\ kLog = <<>>
            /\ error.at = "k_setup" =>
                 /\ Len(cpxLog) = 3
                 /\ Len(kLog) < Len(setup_keithley(average_window))
                 /\ IsPrefix(kLog, setup_keithley(average_window))
            /\ error.at = "k_tsreset" =>
                 /\ Len(cpxLog) = 3
                 /\ kLog = setup_keithley(average_window))
    /\ [][error.at \notin ConfigSites]_vars
C15_Witness ==
    /\ error.at = "k_setup"
    /\ pc = "crashed"
    /\ Len(kLog) = 7

\* C16: square returns 0 where the unit sine rounded to 3 decimals is <= 0
\* (the start of a period and its second half) and the amplitude elsewhere,
\* for every elapsed time, frequency and amplitude, and so every setpoint
\* computed and commanded in the loop is 0 or the amplitude.  The part about
\* the function alone is evaluated once, in the initial states.
InSecondHalf(t, frequency) ==
    LET phase == (t * frequency) % 20 IN phase = 0 \/ phase >= 10
C16_SquareIsBinary ==
    /\ pc = "safety" =>
         \A t \in 0..MaxElapsed : \A f \in 1..MaxFrequency :
         \A a \in Amplitudes \cup {0} :
            /\ square(t, f, a) \in {0, a}
            /\ square(t, f, a) = IF InSecondHalf(t, f) THEN 0 ELSE a
    /\ pc \in {"guard", "set_voltage", "loop"} =>
         cpx_target_voltage =
            IF tdelta % 10 \in 1..4 THEN volt_ampl ELSE 0
    /\ \A i \in 1..Len(cpxLog) :
         cpxLog[i][1] = "set_voltage" => cpxLog[i][2] \in {0, volt_ampl}
C16_Witness ==
    /\ pc = "loop"
    /\ Len(cpxLog) >= 5
    /\ cpxLog[4] = <<"set_voltage", 0>>
    /\ cpxLog[5] = <<"set_voltage", volt_ampl>>
    /\ volt_ampl = 223456

\* C17 (as claimed): in the end-to-end run (amplitude 22.3, frequency 0.1,
\* duration 5 s, clocks advancing 1 s per iteration from 0) the target
\* voltage is the same in all records.
EndToEndRun ==
    /\ steady
    /\ loop_time = 5
    /\ volt_ampl = 223000
    /\ volt_freq = 2
    /\ pc \in AfterLoop
C17_TargetConstant ==
    EndToEndRun =>
        \A i, j \in 1..Len(data) : data[i][5] = data[j][5]

\* C17 (amended): in the end-to-end run the target voltage stored is 0 in
\* the first two records and 22.3 in the four later ones: the rounded sine
\* is 0 at elapsed time 0, so the first computed setpoint is 0, and a record
\* carries the setpoint of the iteration before it.
C17_TargetSteps ==
    EndToEndRun =>
        /\ Len(data) = 6
        /\ \A i \in 1..Len(data) :
             data[i][5] = IF i <= 2 THEN 0 ELSE 223000
C17_Witness ==
    /\ EndToEndRun
    /\ pc = "done"
    /\ data[2][5] # data[3][5]

\* C18: for every table the loop produces, the sampling-period statistic is
\* defined and equals the sum of the successive timestamp differences
\* t[i] - t[i-1] divided by their number, and computing it leaves the table
\* as it was.
RECURSIVE SumForward(_, _)
SumForward(ts, i) ==
    IF i > Len(ts) THEN 0 ELSE (ts[i] - ts[i - 1]) + SumForward(ts, i + 1)
C18_SamplingPeriod ==
    (xlsx # NoFile /\ pc # "statistics") =>
        /\ error.kind # "ZeroDivisionError"
        /\ stats = <<SumForward([i \in 1..Len(data) |-> data[i][2]], 2),
                     Len(data) - 1>>
        /\ df = xlsx

\* C19: on the normal path the shutdown commands come only after the export
\* and the statistics; from the loop's last set-voltage command to the
\* shutdown's set_voltage(0) nothing is sent to the source, whose output
\* stays enabled at the last loop setpoint during export and summary.
C19_ShutdownAfterExport ==
    /\ pc \in {"export", "statistics", "shutdown_voltage"} =>
         /\ Len(cpxLog) = 3 + Len(data)
         /\ cpxLog[Len(cpxLog)] = <<"set_voltage", cpx_target_voltage>>
         /\ cpxLog[1] = <<"set_output", 1>>
         /\ \A i \in 1..Len(cpxLog) : cpxLog[i] # <<"set_output", 0>>
    /\ pc \in {"shutdown_voltage", "shutdown_output", "release", "return",
               "done"} =>
         /\ xlsx # NoFile
         /\ Len(xlsx.rows) = Len(data)
         /\ stats # <<>>
C19_Witness ==
    /\ pc = "shutdown_voltage"
    /\ volt_ampl = 223000
    /\ cpx_target_voltage # 0
    /\ cpxLog[Len(cpxLog)][2] = cpx_target_voltage

====
